---- MODULE Spec2Model ----
(***************************************************************************)
(* LinkedIn Comments Scanner v0.6.0: the scroll driver, the extraction     *)
(* loop, the result store and the timers that connect them.                *)
(*                                                                         *)
(* Handlers are operators over a record s holding the ScannerState fields, *)
(* the pending timers and the document; an action applies one handler to   *)
(* the current state.  Time is counted in milliseconds: every pending      *)
(* timeout and the interval carry the time left until they are due, and    *)
(* time passes from one due callback to the next.                          *)
(***************************************************************************)
EXTENDS Integers, Sequences, FiniteSets, TLC

(* ------------------------------ CONFIG --------------------------------- *)
COMMENT_THRESHOLDS == <<20, 50, 100, 200, 500>>
DEFAULT_THRESHOLD == 100
SCROLL_INTERVAL_MS == 4000
\* CONFIG.MAX_SCROLLS is 200 in the source; the model runs it scaled down.
MAX_SCROLLS == 4
SCROLL_END_MARGIN == 150
SCROLL_DETECTION_DELAY == 2500
MAX_SCROLL_RETRIES == 3
CONTENT_LOAD_TIMEOUT == 5000
\* the literal delay of the scan that follows a load-more click
LOAD_MORE_DELAY == 2000
\* the tolerances of validateScroll
PAGE_GROW_MARGIN == 100
DID_SCROLL_MARGIN == 50
\* the phrase table; a text is the sequence of its words
LOAD_MORE_TEXTS == {<<"Neue", "Beitraege", "anzeigen">>, <<"Show", "new", "posts">>,
                    <<"Afficher", "les", "nouveaux", "posts">>,
                    <<"Mostrar", "nuevas", "publicaciones">>,
                    <<"Mostra", "nuovi", "post">>,
                    <<"Nieuwe", "berichten", "weergeven">>,
                    <<"Mostrar", "novas", "publicacoes">>,
                    <<"Ver", "novas", "publicacoes">>}
LINK_PREFIX == "https://www.linkedin.com/feed/update/"

(* ------------------------------ bounds --------------------------------- *)
\* item elements the document ever holds
MaxPosts == 2
\* buttons of the panel the user presses in a session
MaxPresses == 1

(* ---------------------------- the document ----------------------------- *)
NoId == <<>>
\* data-id values: <<namespace, number>> stands for "urn:li:<namespace>:<number>"
\* the text of the comment-count span; NoButton: the item has no comment button
NoButton == <<"?">>
\* item elements: own data-id, data-id of the closest ancestor, label
PostElements ==
    {[dataId |-> <<"activity", 1>>, parentId |-> NoId, label |-> <<"1", ".", "2", "5", "0">>],
     [dataId |-> <<"activity", 1>>, parentId |-> NoId, label |-> <<"5", "0">>],
     [dataId |-> NoId, parentId |-> <<"activity", 2>>, label |-> <<"5", "0">>],
     [dataId |-> <<"activity", 2>>, parentId |-> NoId, label |-> NoButton],
     [dataId |-> <<"share", 3>>, parentId |-> NoId, label |-> <<"1", ".", "2", "5", "0">>],
     [dataId |-> NoId, parentId |-> NoId, label |-> <<"1", ".", "2", "5", "0">>]}
\* the item of a short feed, above the default threshold
FewElements ==
    {[dataId |-> <<"activity", 1>>, parentId |-> NoId, label |-> <<"1", ".", "2", "5", "0">>]}
\* candidate load-more controls: visible text, and whether click() throws
ButtonControls == {[text |-> <<"Show", "new", "posts", "(3)">>, throws |-> FALSE],
                   [text |-> <<"Show", "new", "posts">>, throws |-> TRUE],
                   [text |-> <<"Nothing", "matches">>, throws |-> FALSE]}
\* the control of a short feed
FewControls == {[text |-> <<"Show", "new", "posts", "(3)">>, throws |-> FALSE]}
\* item elements whose data-id holds a quote, a comma or a line break; a data-id
\* is the sequence of its characters, "activity" standing for "activity:"
CsvElements ==
    {[dataId |-> <<"activity", "7", "\"", ",">>, parentId |-> NoId,
      label |-> <<"1", ".", "2", "5", "0">>],
     [dataId |-> <<"activity", "\"", "\"", "x">>, parentId |-> NoId,
      label |-> <<"2", "3", "4">>],
     [dataId |-> <<"activity", "\n", "9", ",">>, parentId |-> NoId,
      label |-> <<"1", "0", "0">>],
     [dataId |-> <<"activity", "4", "2">>, parentId |-> NoId,
      label |-> <<"5", "0", "0">>]}
\* items whose count is below every threshold at first: no comment button, a
\* text without digits, a small count; and the text a count rises to
QuietElements ==
    {[dataId |-> <<"activity", 4>>, parentId |-> NoId, label |-> NoButton],
     [dataId |-> <<"activity", 5>>, parentId |-> NoId, label |-> <<"n", "/", "a">>],
     [dataId |-> <<"activity", 6>>, parentId |-> NoId, label |-> <<"1", "9">>]}
RisenLabels == {<<"1", ".", "2", "5", "0">>}
\* scrollHeight values the document grows through, and the viewport height
Heights == {1000, 1300}
\* scrollHeight values that land on the tolerances of validateScroll
FineHeights == {1000, 1050, 1150, 1300}
ViewportHeights == {800}
\* values handed to setThreshold: three of the buttons and one foreign value
ThresholdInputs == {20, 50, 100, 30}
\* values parseInt can return for the saved preference (0 stands for NaN)
SavedThresholds == {0, 20, 30}

VARIABLES
    scrollCount, scrollInterval, results, seenPostIds, paused,
    scrollFailureDetected, scrollRetryCount, contentLoaded, commentThreshold,
    mutationObserver,
    timers,        \* pending setTimeout callbacks, in the order of their creation
    posts,         \* the item elements of the document, in document order
    buttons,       \* the candidate load-more controls of the document
    scrollY, scrollHeight, innerHeight,
    overlay,       \* the control panel is in the document
    presses,       \* the buttons of the panel pressed so far
    onFeed,        \* window.location.href holds "linkedin.com/feed"
    stateCreated,  \* the ScannerState object exists
    stalls,        \* validations without progress in a row (observation only)
    fx             \* what the last step did (observation only)

vars == <<scrollCount, scrollInterval, results, seenPostIds, paused,
          scrollFailureDetected, scrollRetryCount, contentLoaded, commentThreshold,
          mutationObserver, timers, posts, buttons, scrollY, scrollHeight,
          innerHeight, overlay, presses, onFeed, stateCreated, stalls, fx>>

Null == <<>>

Max(a, b) == IF a >= b THEN a ELSE b
Min(a, b) == IF a <= b THEN a ELSE b
Abs(a) == IF a >= 0 THEN a ELSE 0 - a
InSeq(x, seq) == \E i \in 1..Len(seq) : seq[i] = x

\* the observation of one step: the handler that ran, what it did, and the flags
\* and the number of records it found when it started
NoFx(op) == [op |-> op, entered |-> FALSE, scrolled |-> FALSE, clicked |-> FALSE,
             scans |-> 0, foundNew |-> 0, progress |-> "none", failures |-> 0,
             maxReached |-> FALSE, wasPaused |-> FALSE, wasFailed |-> FALSE,
             hadResults |-> 0, value |-> 0, asked |-> FALSE, caught |-> 0,
             clickedAt |-> 0, hadRetries |-> 0, csv |-> <<>>]

\* the current state as one record
Cur == [scrollCount |-> scrollCount, scrollInterval |-> scrollInterval,
        results |-> results, seenPostIds |-> seenPostIds, paused |-> paused,
        scrollFailureDetected |-> scrollFailureDetected,
        scrollRetryCount |-> scrollRetryCount, contentLoaded |-> contentLoaded,
        commentThreshold |-> commentThreshold, mutationObserver |-> mutationObserver,
        timers |-> timers, posts |-> posts, buttons |-> buttons, scrollY |-> scrollY,
        scrollHeight |-> scrollHeight, innerHeight |-> innerHeight,
        overlay |-> overlay, presses |-> presses, onFeed |-> onFeed,
        stateCreated |-> stateCreated, stalls |-> stalls, fx |-> fx]

\* the validations in a row, up to and including the step that led to s, that
\* saw no progress and activated no load-more control; a resume starts anew
Streak(s) ==
    CASE s.fx.op = "validate" /\ s.fx.progress \in {"bottom", "blocked"} -> s.stalls + 1
      [] s.fx.op = "validate" -> 0
      [] s.fx.op = "resume" -> 0
      [] OTHER -> s.stalls

Becomes(s) ==
    /\ scrollCount' = s.scrollCount
    /\ scrollInterval' = s.scrollInterval
    /\ results' = s.results
    /\ seenPostIds' = s.seenPostIds
    /\ paused' = s.paused
    /\ scrollFailureDetected' = s.scrollFailureDetected
    /\ scrollRetryCount' = s.scrollRetryCount
    /\ contentLoaded' = s.contentLoaded
    /\ commentThreshold' = s.commentThreshold
    /\ mutationObserver' = s.mutationObserver
    /\ timers' = s.timers
    /\ posts' = s.posts
    /\ buttons' = s.buttons
    /\ scrollY' = s.scrollY
    /\ scrollHeight' = s.scrollHeight
    /\ innerHeight' = s.innerHeight
    /\ overlay' = s.overlay
    /\ presses' = s.presses
    /\ onFeed' = s.onFeed
    /\ stateCreated' = s.stateCreated
    /\ stalls' = Streak(s)
    /\ fx' = s.fx

(* ----------------------------- ScannerState ---------------------------- *)
\* getSavedThreshold: saved is what parseInt made of the stored preference
getSavedThreshold(saved) ==
    IF InSeq(saved, COMMENT_THRESHOLDS) THEN saved ELSE DEFAULT_THRESHOLD

\* a setThreshold that takes any value
stateSetThresholdAny(s, value) == [s EXCEPT !.commentThreshold = value]

\* ScannerState.setThreshold
stateSetThreshold(s, value) ==
    IF InSeq(value, COMMENT_THRESHOLDS) THEN [s EXCEPT !.commentThreshold = value] ELSE s

\* a reset that keeps the retry counter
resetKeepsRetries(s) == [s EXCEPT !.scrollCount = 0, !.scrollFailureDetected = FALSE,
                                  !.paused = FALSE]

\* ScannerState.reset
reset(s) == [s EXCEPT !.scrollCount = 0, !.scrollFailureDetected = FALSE,
                      !.scrollRetryCount = 0, !.paused = FALSE]

\* an addResult that puts the new record last
addResultAtTail(list, result) ==
    IF ~(\E i \in 1..Len(list) : list[i].link = result.link)
    THEN Append(list, result)
    ELSE list

\* ScannerState.addResult: the list after the call
addResult(list, result) ==
    IF ~(\E i \in 1..Len(list) : list[i].link = result.link)
    THEN <<result>> \o list
    ELSE list

\* ScannerState.addResult: the value it returns
addResultAccepts(list, result) ==
    ~(\E i \in 1..Len(list) : list[i].link = result.link)

(* --------------------------------- Utils ------------------------------- *)
Digits == {"0", "1", "2", "3", "4", "5", "6", "7", "8", "9"}
DigitValue(c) == CASE c = "0" -> 0 [] c = "1" -> 1 [] c = "2" -> 2 [] c = "3" -> 3
                   [] c = "4" -> 4 [] c = "5" -> 5 [] c = "6" -> 6 [] c = "7" -> 7
                   [] c = "8" -> 8 [] c = "9" -> 9
IsSeparator(c) == c \in {".", ",", " "}
KeepChar(c) == ~IsSeparator(c)

RECURSIVE ParseDigits(_, _, _)
\* the value of the run of digits of text that starts at i, acc read so far
ParseDigits(text, i, acc) ==
    IF i > Len(text) \/ text[i] \notin Digits THEN acc
    ELSE ParseDigits(text, i + 1, acc * 10 + DigitValue(text[i]))

\* Utils.extractNumber: strip separators, parse the first run of digits, else 0
extractNumber(text) ==
    LET cleaned == SelectSeq(text, KeepChar)
        starts == {i \in 1..Len(cleaned) : cleaned[i] \in Digits}
    IN IF starts = {} THEN 0
       ELSE ParseDigits(cleaned, CHOOSE i \in starts : \A j \in starts : i <= j, 0)

\* Utils.getScrollInfo
getScrollInfo(s) ==
    [maxScroll |-> s.scrollHeight,
     currentScroll |-> s.scrollY,
     windowHeight |-> s.innerHeight,
     nearBottom |-> s.scrollY + s.innerHeight >= s.scrollHeight - SCROLL_END_MARGIN]

(* ------------------------------ the browser ---------------------------- *)
\* setTimeout(fn, delay), fn closed over prevScroll and prevHeight
setTimeout(s, fn, delay, prevScroll, prevHeight) ==
    [s EXCEPT !.timers = Append(@, [fn |-> fn, due |-> delay,
                                    prevScroll |-> prevScroll, prevHeight |-> prevHeight])]

\* window.scrollTo(top): the position is clamped to the document; moves = FALSE
\* is a scroll the page does not carry out
scrollTo(s, top, moves) ==
    [s EXCEPT !.scrollY = IF moves THEN Max(0, Min(top, s.scrollHeight - s.innerHeight))
                          ELSE @,
              !.fx.scrolled = TRUE]

\* updateOverlay: the panel is (re)created
updateOverlay(s) == [s EXCEPT !.overlay = TRUE]

(* ------------------------------- FeedProbe ----------------------------- *)
getPostDataId(post) == IF post.dataId # NoId THEN post.dataId ELSE post.parentId

\* a validity test that does not consult seenPostIds
isValidPostRevisits(s, dataId) == dataId # NoId /\ dataId[1] = "activity"

isValidPost(s, dataId) ==
    /\ dataId # NoId
    /\ dataId \notin s.seenPostIds
    /\ dataId[1] = "activity"

getCommentCount(post) ==
    IF post.label = NoButton THEN 0 ELSE extractNumber(post.label)

\* a threshold test that rejects a count equal to the threshold
meetsThresholdStrict(s, commentCount) == commentCount > s.commentThreshold

\* the threshold test of scanPosts
meetsThreshold(s, commentCount) == commentCount >= s.commentThreshold

\* a loop body that forgets to record the identifier
markSeenForgets(s, dataId) == s

\* seenPostIds.add(dataId)
markSeen(s, dataId) == [s EXCEPT !.seenPostIds = @ \cup {dataId}]

\* a loop body that neither consults seenPostIds nor goes through addResult
scanOneUnchecked(s, i) ==
    LET post == s.posts[i]
        dataId == getPostDataId(post)
    IN IF dataId = NoId \/ dataId[1] # "activity" THEN s
       ELSE LET commentCount == getCommentCount(post)
                result == [link |-> <<LINK_PREFIX, dataId>>, comments |-> commentCount]
                s1 == markSeen(s, dataId)
            IN IF meetsThreshold(s1, commentCount)
               THEN [s1 EXCEPT !.results = <<result>> \o @, !.fx.foundNew = @ + 1]
               ELSE s1

\* the body of the loop of scanPosts for the element at index i
scanOne(s, i) ==
    LET post == s.posts[i]
        dataId == getPostDataId(post)
    IN IF ~isValidPost(s, dataId) THEN s
       ELSE LET commentCount == getCommentCount(post)
                result == [link |-> <<LINK_PREFIX, dataId>>, comments |-> commentCount]
                s1 == markSeen(s, dataId)
            IN IF meetsThreshold(s1, commentCount)
               THEN [s1 EXCEPT !.results = addResult(@, result),
                               !.fx.foundNew = IF addResultAccepts(s1.results, result)
                                               THEN @ + 1 ELSE @]
               ELSE s1

RECURSIVE scanFrom(_, _)
scanFrom(s, i) == IF i > Len(s.posts) THEN s ELSE scanFrom(scanOne(s, i), i + 1)

\* scanPosts; its return value is fx.foundNew
scanPosts(s) ==
    updateOverlay(scanFrom([s EXCEPT !.fx.scans = @ + 1, !.fx.foundNew = 0], 1))

(* ---------------------------- LoadMoreInvoker -------------------------- *)
IsInfix(p, t) ==
    \E k \in 0..(Len(t) - Len(p)) : \A j \in 1..Len(p) : t[k + j] = p[j]

ButtonMatches(button) == \E phrase \in LOAD_MORE_TEXTS : IsInfix(phrase, button.text)

\* the phrases of the table that the text of the button holds
MatchingPhrases(button) == {phrase \in LOAD_MORE_TEXTS : IsInfix(phrase, button.text)}

\* a click() that never throws
activatesAlways(button) == TRUE

\* button.click() returns without throwing
activates(button) == ~button.throws

RECURSIVE clickFrom(_, _)
\* the loop of clickLoadMoreButton from the control at index i on: a control
\* that holds a phrase is clicked; a click that throws is caught, once for
\* every phrase the text holds, and the loop goes on
clickFrom(s, i) ==
    IF i > Len(s.buttons) THEN s
    ELSE LET button == s.buttons[i] IN
         IF MatchingPhrases(button) = {} THEN clickFrom(s, i + 1)
         ELSE IF activates(button)
         THEN updateOverlay([s EXCEPT !.fx.clicked = TRUE, !.fx.clickedAt = i])
         ELSE clickFrom([s EXCEPT !.fx.caught = @ + Cardinality(MatchingPhrases(button))],
                        i + 1)

\* clickLoadMoreButton: the state it leaves
clickLoadMoreButton(s) == clickFrom([s EXCEPT !.fx.asked = TRUE], 1)

\* a caller that takes every call of clickLoadMoreButton as a miss
clickLoadMoreButtonReturnsFalse(s) == FALSE

\* clickLoadMoreButton: the value it returns
clickLoadMoreButtonReturns(s) == clickLoadMoreButton(s).fx.clicked

(* ------------------------------- CSV export ---------------------------- *)
\* a text is the sequence of its characters
QUOTE == "\""
COMMA == ","
NEWLINE == "\n"
DigitChars == <<"0", "1", "2", "3", "4", "5", "6", "7", "8", "9">>

RECURSIVE ToDigits(_)
\* String(n) for a number n >= 0
ToDigits(n) ==
    IF n < 10 THEN <<DigitChars[n + 1]>>
    ELSE Append(ToDigits(n \div 10), DigitChars[(n % 10) + 1])

\* the text of result.link
LinkText(link) == <<link[1]>> \o link[2]

RECURSIVE DigitRun(_, _)
\* the longest run of digits of text that starts at i
DigitRun(text, i) ==
    IF i > Len(text) \/ text[i] \notin Digits THEN <<>>
    ELSE <<text[i]>> \o DigitRun(text, i + 1)

\* result.link.match(/activity:(\d+)/), and the link itself if nothing matches
PostId(link) ==
    LET text == LinkText(link)
        hits == {i \in 1..(Len(text) - 1) : text[i] = "activity" /\ text[i + 1] \in Digits}
    IN IF hits = {} THEN text
       ELSE DigitRun(text, (CHOOSE i \in hits : \A j \in hits : i <= j) + 1)

RECURSIVE DoubleQuotes(_)
\* replace(/"/g, '""')
DoubleQuotes(text) ==
    IF text = <<>> THEN <<>>
    ELSE (IF Head(text) = QUOTE THEN <<QUOTE, QUOTE>> ELSE <<Head(text)>>)
         \o DoubleQuotes(Tail(text))

\* a field wrapped in quotes as it is
escapeFieldRaw(text) == <<QUOTE>> \o text \o <<QUOTE>>

\* '"' + String(field).replace(/"/g, '""') + '"'
escapeField(text) == <<QUOTE>> \o DoubleQuotes(text) \o <<QUOTE>>

RECURSIVE Join(_, _)
\* Array.prototype.join
Join(texts, separator) ==
    IF texts = <<>> THEN <<>>
    ELSE IF Len(texts) = 1 THEN texts[1]
    ELSE texts[1] \o <<separator>> \o Join(Tail(texts), separator)

\* the rows of downloadCSV: the header, then one row for every result
CsvRows(list) ==
    <<<< <<"Post ID">>, <<"URL">>, <<"Comments">> >>>>
    \o [i \in 1..Len(list) |->
           <<PostId(list[i].link), LinkText(list[i].link), ToDigits(list[i].comments)>>]

\* csvContent of downloadCSV
CsvContent(list) ==
    LET rows == CsvRows(list)
        line(row) == Join([j \in 1..Len(row) |-> escapeField(row[j])], COMMA)
    IN Join([i \in 1..Len(rows) |-> line(rows[i])], NEWLINE)

\* downloadCSV: the file it hands to the browser
downloadCSV(s) == [s EXCEPT !.fx.csv = CsvContent(s.results)]

RECURSIVE ParseFrom(_, _, _, _, _, _)
\* a reader of quoted CSV (RFC 4180): text from index i on, in mode "start" (at
\* the start of a field), "plain" (in an unquoted field), "quoted" (in a quoted
\* field) or "closing" (after a quote inside a quoted field); field, row and
\* rows are what was read so far
ParseFrom(text, i, mode, field, row, rows) ==
    IF i > Len(text)
    THEN IF mode = "start" /\ row = <<>> /\ rows # <<>> THEN rows
         ELSE Append(rows, Append(row, field))
    ELSE LET c == text[i] IN
         CASE mode = "quoted" /\ c = QUOTE ->
                  ParseFrom(text, i + 1, "closing", field, row, rows)
           [] mode = "quoted" /\ c # QUOTE ->
                  ParseFrom(text, i + 1, "quoted", Append(field, c), row, rows)
           [] mode = "closing" /\ c = QUOTE ->
                  ParseFrom(text, i + 1, "quoted", Append(field, QUOTE), row, rows)
           [] mode = "start" /\ c = QUOTE ->
                  ParseFrom(text, i + 1, "quoted", <<>>, row, rows)
           [] mode # "quoted" /\ c = COMMA ->
                  ParseFrom(text, i + 1, "start", <<>>, Append(row, field), rows)
           [] mode # "quoted" /\ c = NEWLINE ->
                  ParseFrom(text, i + 1, "start", <<>>, <<>>,
                            Append(rows, Append(row, field)))
           [] OTHER ->
                  ParseFrom(text, i + 1, "plain", Append(field, c), row, rows)

ParseCsv(text) == ParseFrom(text, 1, "start", <<>>, <<>>, <<>>)

(* ------------------------------ ScrollDriver --------------------------- *)
stopScrolling(s) ==
    IF s.scrollInterval # Null THEN [s EXCEPT !.scrollInterval = Null] ELSE s

\* a ceiling handler that leaves the interval running
handleMaxScrollsReachedKeepsTicking(s) ==
    updateOverlay([s EXCEPT !.paused = TRUE, !.fx.maxReached = TRUE])

handleMaxScrollsReached(s) ==
    updateOverlay(stopScrolling([s EXCEPT !.paused = TRUE, !.fx.maxReached = TRUE]))

\* a failure handler that sets the failure flag and not the paused flag
handleScrollFailureUnpaused(s) ==
    updateOverlay(stopScrolling([s EXCEPT !.scrollFailureDetected = TRUE,
                                          !.fx.failures = @ + 1]))

handleScrollFailure(s) ==
    updateOverlay(stopScrolling([s EXCEPT !.paused = TRUE,
                                          !.scrollFailureDetected = TRUE,
                                          !.fx.failures = @ + 1]))

\* an entry guard that ignores the paused flag
mayNotScrollUnlessFailed(s) == s.scrollFailureDetected

\* the entry guard of scrollAndScan
mayNotScroll(s) == s.paused \/ s.scrollFailureDetected

\* a continuation that counts the cycle as a scroll
afterLoadMoreCounts(s) ==
    setTimeout([s EXCEPT !.scrollCount = @ + 1, !.contentLoaded = FALSE],
               "scanPosts", LOAD_MORE_DELAY, 0, 0)

\* what scrollAndScan does after a load-more click: a delayed scan, and return
afterLoadMore(s) == setTimeout(s, "scanPosts", LOAD_MORE_DELAY, 0, 0)

\* scrollAndScan; moves: the page carries out the scroll command
scrollAndScan(s, moves) ==
    IF mayNotScroll(s) THEN s
    ELSE LET e == [s EXCEPT !.fx.entered = TRUE] IN
         IF clickLoadMoreButtonReturns(e)
         THEN afterLoadMore(clickLoadMoreButton(e))
         ELSE LET s0 == clickLoadMoreButton(e)
                  scrollInfo == getScrollInfo(s0)
                  prevScroll == scrollInfo.currentScroll
                  prevHeight == scrollInfo.maxScroll
                  s1 == [s0 EXCEPT !.scrollCount = @ + 1, !.contentLoaded = FALSE]
              IN IF s1.scrollCount >= MAX_SCROLLS
                 THEN handleMaxScrollsReached(s1)
                 ELSE setTimeout(scrollTo(s1, scrollInfo.maxScroll, moves),
                                 "validateScroll", SCROLL_DETECTION_DELAY,
                                 prevScroll, prevHeight)

\* a comparison that gives up one stall late
retriesExhaustedLate(s) == s.scrollRetryCount > MAX_SCROLL_RETRIES

\* the test of validateScroll that ends the retries
retriesExhausted(s) == s.scrollRetryCount >= MAX_SCROLL_RETRIES

\* validateScroll
\* a progress test that does not look at the content flag
madeProgressUnnoticed(pageGrew, didScroll, contentDetected) == pageGrew \/ didScroll

\* the progress test of validateScroll
madeProgress(pageGrew, didScroll, contentDetected) ==
    pageGrew \/ didScroll \/ contentDetected

validateScroll(s, prevScroll, prevHeight) ==
    LET scrollInfo == getScrollInfo(s)
        currentScroll == scrollInfo.currentScroll
        currentHeight == scrollInfo.maxScroll
        pageGrew == currentHeight > prevHeight + PAGE_GROW_MARGIN
        didScroll == Abs(currentScroll - prevScroll) > DID_SCROLL_MARGIN
        contentDetected == s.contentLoaded
    IN IF madeProgress(pageGrew, didScroll, contentDetected)
       THEN scanPosts([s EXCEPT !.scrollRetryCount = 0, !.fx.progress = "yes"])
       ELSE IF scrollInfo.nearBottom
       THEN IF clickLoadMoreButtonReturns(s)
            THEN setTimeout([clickLoadMoreButton(s) EXCEPT !.scrollRetryCount = 0,
                                                          !.fx.progress = "button"],
                            "scanPosts", LOAD_MORE_DELAY, 0, 0)
            ELSE LET s1 == [clickLoadMoreButton(s) EXCEPT !.scrollRetryCount = @ + 1,
                                                         !.fx.progress = "bottom"]
                 IN IF retriesExhausted(s1)
                    THEN handleScrollFailure(s1)
                    ELSE setTimeout(updateOverlay(s1), "scrollAndScan",
                                    CONTENT_LOAD_TIMEOUT, 0, 0)
       ELSE LET s1 == [s EXCEPT !.scrollRetryCount = @ + 1, !.fx.progress = "blocked"]
            IN IF retriesExhausted(s1)
               THEN handleScrollFailure(s1)
               ELSE scanPosts(s1)

\* startScanning
startScanning(s, moves) ==
    IF s.scrollInterval = Null
    THEN [scrollAndScan(s, moves) EXCEPT !.scrollInterval = <<SCROLL_INTERVAL_MS>>]
    ELSE s

\* a pause that leaves the interval running
togglePauseKeepsTicking(s, moves) ==
    updateOverlay(IF s.paused
                  THEN startScanning(reset(s), moves)
                  ELSE [s EXCEPT !.paused = TRUE])

\* togglePause
togglePause(s, moves) ==
    updateOverlay(IF s.paused
                  THEN startScanning(reset(s), moves)
                  ELSE stopScrolling([s EXCEPT !.paused = TRUE]))

\* a setThreshold that drops the records below the new threshold
setThresholdRefilters(s, value) ==
    LET s1 == updateOverlay(stateSetThreshold(s, value))
        keeps(r) == r.comments >= s1.commentThreshold
    IN [s1 EXCEPT !.results = SelectSeq(@, keeps)]

\* LinkedInScanner.setThreshold
setThreshold(s, value) == updateOverlay(stateSetThreshold(s, value))

\* a close that forgets the identifiers it has seen
closeKeepsSeen(s) ==
    [stopScrolling(s) EXCEPT !.mutationObserver = Null, !.overlay = FALSE,
                             !.results = <<>>]

\* close
close(s) ==
    [stopScrolling(s) EXCEPT !.mutationObserver = Null, !.overlay = FALSE,
                             !.seenPostIds = {}, !.results = <<>>]

\* setupMutationObserver; outcome: what the platform lets it do. The observer
\* is assigned before observe() is called, so an observe() that throws leaves
\* an observer that is never notified
setupMutationObserver(s, outcome) ==
    CASE outcome = "subscribed" -> [s EXCEPT !.mutationObserver = <<"observing">>]
      [] outcome = "observeThrows" -> [s EXCEPT !.mutationObserver = <<"idle">>]
      [] outcome = "constructorThrows" -> s

\* a notification that reaches the scanner whether it subscribed or not
observerCallbackAlways(s) == [s EXCEPT !.contentLoaded = TRUE]

\* the callback of the MutationObserver for an inserted node that is, or holds, an item
observerCallback(s) ==
    IF s.mutationObserver = <<"observing">> THEN [s EXCEPT !.contentLoaded = TRUE] ELSE s

\* new ScannerState() on a document; onFeed: the document is the feed
ScannerState(saved, height, viewport, onFeed_) ==
    [scrollCount |-> 0, scrollInterval |-> Null, results |-> <<>>, seenPostIds |-> {},
     paused |-> FALSE, scrollFailureDetected |-> FALSE, scrollRetryCount |-> 0,
     contentLoaded |-> FALSE, commentThreshold |-> getSavedThreshold(saved),
     mutationObserver |-> Null,
     timers |-> <<>>, posts |-> <<>>, buttons |-> <<>>, scrollY |-> 0,
     scrollHeight |-> height, innerHeight |-> viewport, overlay |-> FALSE,
     presses |-> 0, onFeed |-> onFeed_, stateCreated |-> TRUE, stalls |-> 0,
     fx |-> [NoFx("init") EXCEPT !.value = saved]]

\* validateEnvironment
validateEnvironment(s) == s.onFeed

\* init
init(s, outcome, moves) ==
    IF ~validateEnvironment(s) THEN s
    ELSE startScanning(setupMutationObserver(s, outcome), moves)

\* an entry point that starts whatever the document is
LinkedInScannerAnywhere(saved, height, viewport, onFeed_, outcome, moves) ==
    LET s == ScannerState(saved, height, viewport, onFeed_)
    IN startScanning(setupMutationObserver(s, outcome), moves)

\* new LinkedInScanner(): the constructor makes the state, then runs init
LinkedInScanner(saved, height, viewport, onFeed_, outcome, moves) ==
    init(ScannerState(saved, height, viewport, onFeed_), outcome, moves)

(* -------------------------------- actions ------------------------------ *)
Starts(s) ==
    /\ scrollCount = s.scrollCount
    /\ scrollInterval = s.scrollInterval
    /\ results = s.results
    /\ seenPostIds = s.seenPostIds
    /\ paused = s.paused
    /\ scrollFailureDetected = s.scrollFailureDetected
    /\ scrollRetryCount = s.scrollRetryCount
    /\ contentLoaded = s.contentLoaded
    /\ commentThreshold = s.commentThreshold
    /\ mutationObserver = s.mutationObserver
    /\ timers = s.timers
    /\ posts = s.posts
    /\ buttons = s.buttons
    /\ scrollY = s.scrollY
    /\ scrollHeight = s.scrollHeight
    /\ innerHeight = s.innerHeight
    /\ overlay = s.overlay
    /\ presses = s.presses
    /\ onFeed = s.onFeed
    /\ stateCreated = s.stateCreated
    /\ stalls = s.stalls
    /\ fx = s.fx

MinHeight == CHOOSE h \in Heights : \A g \in Heights : h <= g

\* the state the module's last lines leave: a scanner constructed on a document
Construct(savedSet, outcomeSet, movesSet, onFeedSet) ==
    \E saved \in savedSet, viewport \in ViewportHeights,
       outcome \in outcomeSet, moves \in movesSet, onFeed_ \in onFeedSet :
        Starts(LinkedInScanner(saved, MinHeight, viewport, onFeed_, outcome, moves))

Init == Construct({0}, {"subscribed"}, BOOLEAN, {TRUE})

\* a handler starts with a fresh observation
Begin(op) == [Cur EXCEPT !.fx = [NoFx(op) EXCEPT !.wasPaused = paused,
                                                  !.wasFailed = scrollFailureDetected,
                                                  !.hadResults = Len(results),
                                                  !.hadRetries = scrollRetryCount]]

IntervalDue == scrollInterval # Null /\ scrollInterval[1] = 0
DueTimers == {i \in 1..Len(timers) : timers[i].due = 0}
\* due timeouts run in the order of their creation
FirstDue == CHOOSE i \in DueTimers : \A j \in DueTimers : i <= j
RemoveAt(seq, i) == SubSeq(seq, 1, i - 1) \o SubSeq(seq, i + 1, Len(seq))

\* the setInterval callback of startScanning
Tick(movesSet) ==
    /\ IntervalDue
    /\ \E moves \in movesSet :
          Becomes(scrollAndScan([Begin("tick") EXCEPT
                                    !.scrollInterval = <<SCROLL_INTERVAL_MS>>], moves))

\* the setTimeout callback of scrollAndScan that runs validateScroll
FireValidate ==
    /\ DueTimers # {}
    /\ timers[FirstDue].fn = "validateScroll"
    /\ Becomes(validateScroll([Begin("validate") EXCEPT !.timers = RemoveAt(@, FirstDue)],
                              timers[FirstDue].prevScroll, timers[FirstDue].prevHeight))

\* the setTimeout callback that runs scanPosts after a load-more click
FireScan ==
    /\ DueTimers # {}
    /\ timers[FirstDue].fn = "scanPosts"
    /\ Becomes(scanPosts([Begin("scan") EXCEPT !.timers = RemoveAt(@, FirstDue)]))

\* the setTimeout callback of validateScroll that runs scrollAndScan again
FireRetry(movesSet) ==
    /\ DueTimers # {}
    /\ timers[FirstDue].fn = "scrollAndScan"
    /\ \E moves \in movesSet :
          Becomes(scrollAndScan([Begin("retry") EXCEPT !.timers = RemoveAt(@, FirstDue)],
                                moves))

\* the time left until the next callback is due
Remaining == {timers[i].due : i \in 1..Len(timers)}
                 \cup (IF scrollInterval = Null THEN {} ELSE {scrollInterval[1]})
NextDue == CHOOSE d \in Remaining : \A e \in Remaining : d <= e

\* time passes until the next callback is due
Elapse ==
    /\ Remaining # {}
    /\ NextDue > 0
    /\ Becomes([Begin("env") EXCEPT
                   !.scrollInterval = IF @ = Null THEN @ ELSE <<@[1] - NextDue>>,
                   !.timers = [i \in 1..Len(@) |-> [@[i] EXCEPT !.due = @ - NextDue]]])

\* the user presses a button of the panel
Press(op) == [Begin(op) EXCEPT !.presses = @ + 1]
CanPress == overlay /\ presses < MaxPresses

\* the Pause / Resume button
Pause ==
    /\ CanPress
    /\ ~paused
    /\ Becomes(togglePause(Press("pause"), FALSE))

Resume(movesSet) ==
    /\ CanPress
    /\ paused
    /\ \E moves \in movesSet : Becomes(togglePause(Press("resume"), moves))

\* a threshold button (or a call with a foreign value)
SetThreshold(inputs) ==
    /\ CanPress
    /\ \E value \in inputs :
          Becomes(setThreshold([Press("setThreshold") EXCEPT !.fx.value = value], value))

\* the CSV Download button
DownloadCSV ==
    /\ CanPress
    /\ Becomes(downloadCSV(Press("downloadCSV")))

\* the close button
Close ==
    /\ CanPress
    /\ Becomes(close(Press("close")))

\* the document grows
DocGrow(heights) ==
    \E h \in heights :
        /\ h > scrollHeight
        /\ Becomes([Begin("env") EXCEPT !.scrollHeight = h])

\* the feed inserts an item element; the observer's callback runs
DocAppendPost(elements) ==
    /\ Len(posts) < MaxPosts
    /\ \E e \in elements :
          /\ ~InSeq(e, posts)
          /\ Becomes(observerCallback([Begin("env") EXCEPT !.posts = Append(@, e)]))

\* the comment count of an item in the document rises
DocRelabel(labels) ==
    \E k \in 1..Len(posts), l \in labels :
        /\ getCommentCount([posts[k] EXCEPT !.label = l]) > getCommentCount(posts[k])
        /\ Becomes([Begin("env") EXCEPT !.posts[k].label = l])

\* the feed shows or drops a candidate load-more control
DocShowButton(controls) ==
    \E b \in controls :
        /\ ~InSeq(b, buttons)
        /\ Becomes([Begin("env") EXCEPT !.buttons = Append(@, b)])

DocDropButton ==
    /\ buttons # <<>>
    /\ Becomes([Begin("env") EXCEPT !.buttons = Tail(@)])

\* the driver on a short feed: the page scrolls or not, grows, shows controls
Next ==
    \/ Tick(BOOLEAN)
    \/ FireValidate
    \/ FireScan
    \/ FireRetry(BOOLEAN)
    \/ Elapse
    \/ Pause
    \/ Resume(BOOLEAN)
    \/ Close
    \/ DocGrow(Heights)
    \/ DocAppendPost(FewElements)
    \/ DocShowButton(FewControls)
    \/ DocDropButton

Spec == Init /\ [][Next]_vars

\* extraction on a feed of many items whose page does not scroll
FeedInit == Construct(SavedThresholds, {"subscribed", "constructorThrows"}, {FALSE}, {TRUE})

FeedNext ==
    \/ Tick({FALSE})
    \/ FireValidate
    \/ Elapse
    \/ Pause
    \/ Resume({FALSE})
    \/ SetThreshold(ThresholdInputs)
    \/ Close
    \/ DocAppendPost(PostElements)

FeedSpec == FeedInit /\ [][FeedNext]_vars

\* the driver left alone: no button of the panel is pressed
NextUnattended ==
    \/ Tick(BOOLEAN)
    \/ FireValidate
    \/ FireScan
    \/ FireRetry(BOOLEAN)
    \/ Elapse
    \/ DocGrow(Heights)
    \/ DocAppendPost(FewElements)
    \/ DocShowButton(FewControls)
    \/ DocDropButton

\* time passes and every callback that is due runs
LiveSpec ==
    /\ Init
    /\ [][NextUnattended]_vars
    /\ WF_vars(Elapse)
    /\ WF_vars(Tick(BOOLEAN))
    /\ WF_vars(FireValidate)
    /\ WF_vars(FireScan)
    /\ WF_vars(FireRetry(BOOLEAN))

\* activation on any document, the feed or not, then left alone
EntryInit == Construct({0}, {"subscribed"}, BOOLEAN, BOOLEAN)
EntrySpec == EntryInit /\ [][NextUnattended]_vars

\* the driver left alone on a feed that shows every kind of control
ControlsNext ==
    \/ Tick(BOOLEAN)
    \/ FireValidate
    \/ FireScan
    \/ FireRetry(BOOLEAN)
    \/ Elapse
    \/ DocGrow(Heights)
    \/ DocShowButton(ButtonControls)
    \/ DocDropButton
ControlsSpec == Init /\ [][ControlsNext]_vars

\* a session left alone on a platform that cannot notify of structural changes
DegradedInit == Construct({0}, {"constructorThrows", "observeThrows"}, BOOLEAN, {TRUE})
DegradedSpec == DegradedInit /\ [][NextUnattended]_vars

\* the driver left alone on a page that grows in small steps
ProgressNext ==
    \/ Tick(BOOLEAN)
    \/ FireValidate
    \/ FireRetry(BOOLEAN)
    \/ Elapse
    \/ DocGrow(FineHeights)
    \/ DocAppendPost(FewElements)
ProgressSpec == Init /\ [][ProgressNext]_vars

\* a feed whose identifiers hold quotes, commas and line breaks, and the export
CsvNext ==
    \/ Tick({FALSE})
    \/ FireValidate
    \/ Elapse
    \/ DocAppendPost(CsvElements)
    \/ DownloadCSV
CsvSpec == Init /\ [][CsvNext]_vars

\* the driver on a page that has stopped growing, resumed when it stops
RetryNext ==
    \/ Tick(BOOLEAN)
    \/ FireValidate
    \/ FireScan
    \/ FireRetry(BOOLEAN)
    \/ Elapse
    \/ Resume(BOOLEAN)
    \/ DocAppendPost(FewElements)
    \/ DocShowButton(FewControls)
    \/ DocDropButton
RetrySpec == Init /\ [][RetryNext]_vars

\* a feed of items that start below the threshold and whose counts rise
RescanNext ==
    \/ Tick({FALSE})
    \/ FireValidate
    \/ Elapse
    \/ SetThreshold({50})
    \/ Close
    \/ DocAppendPost(QuietElements)
    \/ DocRelabel(RisenLabels)
RescanSpec == Init /\ [][RescanNext]_vars

\* the driver on a page that has stopped growing while items and controls
\* still come in, with every button of the panel that stops or starts it
StopNext ==
    \/ Tick(BOOLEAN)
    \/ FireValidate
    \/ FireScan
    \/ FireRetry(BOOLEAN)
    \/ Elapse
    \/ Pause
    \/ Resume(BOOLEAN)
    \/ Close
    \/ DocAppendPost(FewElements)
    \/ DocShowButton(FewControls)
    \/ DocDropButton
StopSpec == Init /\ [][StopNext]_vars

(* ------------------------------- properties ---------------------------- *)
\* a scroll cycle is in flight in ts: a validation or a retry is pending
CycleInFlight(ts) ==
    \E i \in 1..Len(ts) : ts[i].fn \in {"validateScroll", "scrollAndScan"}

\* C1: a scroll step (scrollAndScan past its entry guard) never starts while a
\* validation or a retry of an earlier cycle is still pending; the pending
\* callbacks are those of the state before the step, less the retry that runs it.
C1_OneCycleInFlight ==
    [][fx'.entered =>
          ~CycleInFlight(IF fx'.op = "retry" THEN RemoveAt(timers, FirstDue) ELSE timers)]_vars

\* C2: while paused, a deferred continuation (validation, delayed scan, retry)
\* changes none of scrollRetryCount, scrollFailureDetected, seenPostIds, results.
C2_PausedContinuationIsNoOp ==
    [][(paused /\ fx'.op \in {"validate", "scan", "retry"}) =>
          UNCHANGED <<scrollRetryCount, scrollFailureDetected, seenPostIds, results>>]_vars

\* C3: the driver enters Failed exactly in the step that makes the streak of
\* validations without progress and without a load-more activation reach
\* MAX_SCROLL_RETRIES: not on a shorter streak, and no streak grows that long
\* without the failure flag being set.
C3_RetryBound ==
    [][(~scrollFailureDetected /\ scrollFailureDetected')
          <=> (~scrollFailureDetected /\ stalls' = MAX_SCROLL_RETRIES
                 /\ stalls = MAX_SCROLL_RETRIES - 1)]_vars

\* C3 witness: the third validation in a row near the bottom without progress fails
C3_FailsOnThirdStall ==
    /\ scrollFailureDetected
    /\ fx.op = "validate" /\ fx.progress = "bottom" /\ fx.failures = 1
    /\ stalls = MAX_SCROLL_RETRIES

Links(list) == {list[i].link : i \in 1..Len(list)}
ThresholdSet == {COMMENT_THRESHOLDS[i] : i \in 1..Len(COMMENT_THRESHOLDS)}
\* the state of the loop of scanPosts, started in s, when it reaches element k
AtElement(s, k) ==
    [scanFrom([s EXCEPT !.posts = SubSeq(@, 1, k - 1)], 1) EXCEPT !.posts = s.posts]

\* C4: the result list never holds two records with the same link
C4_UniqueLinks ==
    \A i, j \in 1..Len(results) : results[i].link = results[j].link => i = j

\* C4 witness: a scan has run over two elements that resolve to one identifier,
\* both at or above the threshold, and one record stands for them
C4_TwinElementsScanned ==
    /\ fx.scans > 0
    /\ Len(results) = 1
    /\ \E i, j \in 1..Len(posts) :
          /\ i # j
          /\ getPostDataId(posts[i]) = getPostDataId(posts[j])
          /\ results[1].link = <<LINK_PREFIX, getPostDataId(posts[i])>>
          /\ getCommentCount(posts[i]) >= commentThreshold
          /\ getCommentCount(posts[j]) >= commentThreshold

\* C5: from any state, a scan under the threshold in effect (any that the
\* session can be given) followed at once by a second scan under any threshold:
\* the second finds 0 new records and leaves results and seenPostIds as the
\* first left them
C5_SecondScanFindsNothing ==
    LET first == scanPosts(Begin("scan")) IN
    \A t2 \in ThresholdSet :
        LET second == scanPosts([first EXCEPT !.commentThreshold = t2])
        IN /\ second.fx.foundNew = 0
           /\ second.results = first.results
           /\ second.seenPostIds = first.seenPostIds

\* C5 witness: a state whose next scan finds a record and passes over an unseen
\* item that a lower threshold would admit
C5_ScanWithWorkToDo ==
    /\ scanPosts(Begin("scan")).fx.foundNew > 0
    /\ \E k \in 1..Len(posts), t \in ThresholdSet :
          /\ isValidPost(Cur, getPostDataId(posts[k]))
          /\ getCommentCount(posts[k]) < commentThreshold
          /\ getCommentCount(posts[k]) >= t

\* C6: in every step that runs scanPosts, each record the step adds has a
\* comment count at or above the threshold, and each element that is valid and
\* unseen when the loop reaches it, with a count at or above the threshold, has
\* its record added by the step
C6_ThresholdGate ==
    [][fx'.scans > 0 =>
          LET added == {i \in 1..Len(results') : results'[i].link \notin Links(results)}
          IN /\ \A i \in added : results'[i].comments >= commentThreshold
             /\ \A k \in 1..Len(posts) :
                   LET dataId == getPostDataId(posts[k])
                       commentCount == getCommentCount(posts[k])
                   IN (isValidPost(AtElement(Cur, k), dataId)
                         /\ commentCount >= commentThreshold)
                      => \E i \in added :
                            results'[i] = [link |-> <<LINK_PREFIX, dataId>>,
                                           comments |-> commentCount]]_vars

\* C6 witness: a scan has just added a record whose count equals the threshold,
\* and an identifier it has seen stays out of the list
C6_AddedAtThreshold ==
    /\ fx.scans > 0 /\ fx.foundNew > 0
    /\ results[1].comments = commentThreshold
    /\ \E dataId \in seenPostIds : <<LINK_PREFIX, dataId>> \notin Links(results)

\* C7: a resume sets scrollRetryCount to 0, clears the failure flag and the
\* paused flag, restarts the periodic tick and leaves results and seenPostIds as
\* they were; a step that pauses, fails or resumes leaves results as they were
C7_ResumeResetsAndKeeps ==
    [][/\ fx'.op = "resume" =>
             /\ scrollRetryCount' = 0
             /\ ~scrollFailureDetected'
             /\ ~paused'
             /\ scrollInterval' = <<SCROLL_INTERVAL_MS>>
             /\ results' = results
             /\ seenPostIds' = seenPostIds
       /\ (fx'.op \in {"pause", "resume"} \/ fx'.failures > 0 \/ (~paused /\ paused'))
             => results' = results]_vars

\* C7 witness: a resume from Failed with a record collected
C7_ResumedFromFailed ==
    /\ fx.op = "resume" /\ fx.wasFailed /\ fx.wasPaused
    /\ fx.hadResults > 0 /\ Len(results) = fx.hadResults
    /\ scrollRetryCount = 0 /\ ~paused /\ ~scrollFailureDetected

\* C8 as stated: close cancels the periodic timer, unsubscribes the watcher and
\* leaves the result list as it was
C8_CloseKeepsRecords ==
    [][fx'.op = "close" =>
          /\ scrollInterval' = Null
          /\ mutationObserver' = Null
          /\ results' = results]_vars

\* C8: close cancels the periodic timer, unsubscribes the watcher and empties
\* the result list and seenPostIds
C8_CloseClearsRecords ==
    [][fx'.op = "close" =>
          /\ scrollInterval' = Null
          /\ mutationObserver' = Null
          /\ results' = <<>>
          /\ seenPostIds' = {}]_vars

\* C8 witness: close has run on a session that held a record
C8_ClosedWithRecords ==
    /\ fx.op = "close" /\ fx.hadResults > 0
    /\ results = <<>> /\ seenPostIds = {}
    /\ scrollInterval = Null /\ mutationObserver = Null

\* C9: scrollCount never exceeds MAX_SCROLLS, and the step that raises it to
\* MAX_SCROLLS pauses the driver, cancels the periodic timer, issues no scroll
\* command and does not set the failure flag
C9_ScrollCeiling ==
    /\ [](scrollCount <= MAX_SCROLLS)
    /\ [][(scrollCount # MAX_SCROLLS /\ scrollCount' = MAX_SCROLLS) =>
             /\ fx'.maxReached
             /\ paused'
             /\ scrollInterval' = Null
             /\ ~fx'.scrolled
             /\ ~scrollFailureDetected']_vars

\* C9 witness: the ceiling was reached by a cycle that started with retries
\* on the counter
C9_CeilingDuringRetries ==
    /\ fx.maxReached /\ scrollCount = MAX_SCROLLS
    /\ scrollRetryCount > 0
    /\ paused /\ ~scrollFailureDetected

\* C10: left alone, the driver eventually pauses
C10_EventuallyPaused == <>paused

\* C11: a validation that finds contentLoaded set counts it as progress and
\* clears it, and nothing but such a validation clears it (so each setting is
\* read by exactly one validation)
C11_OneShotFlag ==
    [][/\ (fx'.op = "validate" /\ contentLoaded)
             => (fx'.progress = "yes" /\ ~contentLoaded')
       /\ (contentLoaded /\ ~contentLoaded') => fx'.op = "validate"]_vars

\* C12: commentThreshold is always one of COMMENT_THRESHOLDS; construction takes
\* the saved preference if it is one of them and the default otherwise; a
\* setThreshold takes its value if it is one of them and changes nothing otherwise
C12_ThresholdInSet ==
    /\ [](commentThreshold \in ThresholdSet)
    /\ [](fx.op = "init" =>
             commentThreshold = IF fx.value \in ThresholdSet THEN fx.value
                                ELSE DEFAULT_THRESHOLD)
    /\ [][fx'.op = "setThreshold" =>
             commentThreshold' = IF fx'.value \in ThresholdSet THEN fx'.value
                                 ELSE commentThreshold]_vars

\* C12 witness: a foreign value was handed to setThreshold and the saved
\* preference, not the default, is still in place
C12_ForeignValueRejected ==
    /\ fx.op = "setThreshold" /\ fx.value \notin ThresholdSet
    /\ commentThreshold \in ThresholdSet /\ commentThreshold # DEFAULT_THRESHOLD

\* C13: a tick or a retry continuation that runs while paused or Failed issues
\* no scroll command and changes nothing but the timer it came from; a step
\* that scrolls leaves the driver neither paused nor Failed; only a resume
\* takes the failure flag down
C13_NoScrollWhileStopped ==
    [][/\ ((paused \/ scrollFailureDetected) /\ fx'.op \in {"tick", "retry"}) =>
             /\ ~fx'.scrolled /\ ~fx'.entered /\ ~fx'.clicked /\ fx'.scans = 0
             /\ UNCHANGED <<scrollCount, results, seenPostIds, paused,
                            scrollFailureDetected, scrollRetryCount, contentLoaded,
                            commentThreshold, mutationObserver, posts, buttons,
                            scrollY, scrollHeight, innerHeight, overlay>>
             /\ \A i \in 1..Len(timers') : \E j \in 1..Len(timers) : timers'[i] = timers[j]
       /\ fx'.scrolled =>
             /\ fx'.op = "resume" \/ (~paused /\ ~scrollFailureDetected)
             /\ ~paused' /\ ~scrollFailureDetected'
       /\ (scrollFailureDetected /\ ~scrollFailureDetected') => fx'.op = "resume"]_vars

\* C13 witness: a retry continuation has run on a Failed driver and done nothing
C13_RetryOnFailedDriver ==
    /\ fx.op = "retry" /\ fx.wasFailed /\ fx.wasPaused
    /\ ~fx.entered /\ ~fx.scrolled
    /\ scrollFailureDetected /\ paused

C15_LoadMoreResult ==
    [][fx'.asked =>
          LET good == {i \in 1..Len(buttons) :
                          ButtonMatches(buttons[i]) /\ ~buttons[i].throws}
          IN /\ fx'.clicked <=> good # {}
             /\ fx'.clicked => (fx'.clickedAt \in good
                                  /\ \A i \in good : fx'.clickedAt <= i
                                  /\ ~fx'.scrolled /\ scrollCount' = scrollCount
                                  /\ Len(timers') > 0
                                  /\ timers'[Len(timers')].fn = "scanPosts")
             /\ ~fx'.clicked =>
                   IF fx'.op = "validate"
                   THEN scrollRetryCount' = scrollRetryCount + 1
                   ELSE scrollCount' = scrollCount + 1]_vars

\* C15 witness: a click has thrown and was caught, and a later control was clicked
C15_ThrowCaughtThenClicked ==
    /\ fx.asked /\ fx.caught > 0
    /\ fx.clicked /\ fx.clickedAt > 1

\* C16: without notifications the session still starts (the interval runs and
\* the first cycle is under way), contentLoaded is never set, and a validation
\* declares progress exactly when the extent grew or the position changed
C16_DegradesGracefully ==
    /\ [](~contentLoaded)
    /\ [](fx.op = "init" =>
             /\ scrollInterval = <<SCROLL_INTERVAL_MS>>
             /\ fx.entered /\ fx.scrolled /\ scrollCount = 1
             /\ \E i \in 1..Len(timers) : timers[i].fn = "validateScroll")
    /\ [][fx'.op = "validate" =>
             LET job == timers[FirstDue]
                 pageGrew == scrollHeight > job.prevHeight + PAGE_GROW_MARGIN
                 didScroll == Abs(scrollY - job.prevScroll) > DID_SCROLL_MARGIN
             IN fx'.progress = "yes" <=> (pageGrew \/ didScroll)]_vars

\* C16 witness: an item came into the document unnoticed, and a validation
\* without extent growth or position change counted a stall
C16_ItemArrivedUnnoticed ==
    /\ mutationObserver # <<"observing">>
    /\ posts # <<>> /\ seenPostIds = {}
    /\ fx.op = "validate" /\ fx.progress \in {"bottom", "blocked"}
    /\ scrollRetryCount > 0

\* records handed to addResult: those of the items in the document, under
\* their own count and under another one
Candidates ==
    UNION {{[link |-> <<LINK_PREFIX, getPostDataId(posts[k])>>, comments |-> c] :
               c \in {getCommentCount(posts[k]), 7}} : k \in 1..Len(posts)}

\* C17: every step but close leaves the records it found in place, unchanged
\* and in their order, behind the records it adds, whose links are new; and in
\* every state addResult of a link that is present returns false and changes
\* nothing, and addResult of a new link returns true and puts the record at
\* index 0 (of the source; 1 here) in front of the others
C17_InsertAtHead ==
    /\ [][fx'.op # "close" =>
             LET n == Len(results') - Len(results)
             IN /\ n = fx'.foundNew
                /\ \A i \in 1..Len(results) : results'[n + i] = results[i]
                /\ \A i \in 1..n : results'[i].link \notin Links(results)]_vars
    /\ [](\A r \in Candidates :
             IF r.link \in Links(results)
             THEN ~addResultAccepts(results, r) /\ addResult(results, r) = results
             ELSE /\ addResultAccepts(results, r)
                  /\ Head(addResult(results, r)) = r
                  /\ Tail(addResult(results, r)) = results)

\* C17 witness: a scan has put a record in front of one found earlier
C17_SecondRecordAtHead ==
    /\ fx.scans > 0 /\ fx.foundNew = 1 /\ fx.hadResults = 1
    /\ Len(results) = 2
    /\ results[1].link # results[2].link

\* C19: a setThreshold, taken or rejected, leaves results, seenPostIds,
\* scrollCount, scrollRetryCount, the paused flag, the failure flag and every
\* pending callback as they were
C19_ThresholdNotRetroactive ==
    [][fx'.op = "setThreshold" =>
          UNCHANGED <<results, seenPostIds, scrollCount, scrollRetryCount, paused,
                      scrollFailureDetected, timers, scrollInterval, contentLoaded>>]_vars

\* C19 witness: the threshold was raised above the count of a collected record
C19_RaisedAboveCollected ==
    /\ fx.op = "setThreshold" /\ fx.value = commentThreshold
    /\ \E i \in 1..Len(results) : results[i].comments < commentThreshold

\* C20: a validation declares progress exactly when the extent grew by more
\* than 100 since the snapshot, or the position is more than 50 away from the
\* snapshot, or contentLoaded is set; on progress it sets scrollRetryCount to
\* 0 and scans once, and neither sets the failure flag, nor pauses, nor looks
\* for a load-more control, nor schedules anything
C20_ProgressRule ==
    [][fx'.op = "validate" =>
          LET job == timers[FirstDue]
              pageGrew == scrollHeight > job.prevHeight + 100
              didScroll == Abs(scrollY - job.prevScroll) > 50
          IN /\ fx'.progress = "yes" <=> (pageGrew \/ didScroll \/ contentLoaded)
             /\ fx'.progress = "yes" =>
                   /\ scrollRetryCount' = 0
                   /\ fx'.scans = 1
                   /\ fx'.failures = 0 /\ ~fx'.asked /\ ~fx'.scrolled
                   /\ scrollFailureDetected' = scrollFailureDetected
                   /\ paused' = paused
                   /\ timers' = RemoveAt(timers, FirstDue)]_vars

\* C20 witness: a validation after a stall found the content flag set, took
\* the retry counter back to 0 and collected a record
C20_ProgressAfterStall ==
    /\ fx.op = "validate" /\ fx.progress = "yes"
    /\ fx.hadRetries > 0 /\ scrollRetryCount = 0
    /\ contentLoaded /\ fx.scans = 1 /\ fx.foundNew > 0

\* C18: reading the file of a download with a reader of quoted CSV gives the
\* header row and then, for every result in the order of the list, a row of
\* three fields: its post id, its link and the digits of its comment count,
\* which read back as the count
C18_CsvRoundTrip ==
    fx.op = "downloadCSV" =>
        LET parsed == ParseCsv(fx.csv)
        IN /\ Len(parsed) = Len(results) + 1
           /\ parsed[1] = << <<"Post ID">>, <<"URL">>, <<"Comments">> >>
           /\ \A i \in 1..Len(results) :
                 /\ Len(parsed[i + 1]) = 3
                 /\ parsed[i + 1][1] = PostId(results[i].link)
                 /\ parsed[i + 1][2] = LinkText(results[i].link)
                 /\ \A j \in 1..Len(parsed[i + 1][3]) : parsed[i + 1][3][j] \in Digits
                 /\ ParseDigits(parsed[i + 1][3], 1, 0) = results[i].comments

\* C18 witness: a download of two records whose links hold quotes and a comma
C18_DownloadedTrickyLinks ==
    /\ fx.op = "downloadCSV" /\ Len(results) = 2
    /\ \E i \in 1..2 : InSeq(QUOTE, LinkText(results[i].link))
    /\ \E i \in 1..2 : InSeq(COMMA, LinkText(results[i].link))
    /\ Len(fx.csv) > 0

\* the validation that is due finds no progress: the extent did not grow, the
\* position did not change and contentLoaded is not set
NoProgressDue ==
    LET job == timers[FirstDue]
    IN /\ ~(scrollHeight > job.prevHeight + PAGE_GROW_MARGIN)
       /\ ~(Abs(scrollY - job.prevScroll) > DID_SCROLL_MARGIN)
       /\ ~contentLoaded
NearBottomNow == scrollY + innerHeight >= scrollHeight - SCROLL_END_MARGIN
\* the callbacks that the step adds to the pending ones
Scheduled(before, after) == SubSeq(after, Len(before) + 1, Len(after))

\* C21: a validation without progress near the bottom that activates a
\* load-more control sets scrollRetryCount to 0 and schedules one delayed scan
\* and nothing else; one that activates none adds 1 to scrollRetryCount and
\* then, if the count has reached MAX_SCROLL_RETRIES, enters Failed and
\* schedules nothing, and otherwise schedules one retry of the scroll step
\* after the longer timeout; no branch scans in the step itself
C21_NearBottomStall ==
    [][(fx'.op = "validate" /\ NoProgressDue /\ NearBottomNow) =>
          LET rest == RemoveAt(timers, FirstDue)
              new == Scheduled(rest, timers')
          IN /\ SubSeq(timers', 1, Len(rest)) = rest
             /\ fx'.asked /\ fx'.scans = 0 /\ ~fx'.scrolled
             /\ results' = results /\ seenPostIds' = seenPostIds
             /\ IF fx'.clicked
                THEN /\ scrollRetryCount' = 0
                     /\ Len(new) = 1 /\ new[1].fn = "scanPosts"
                     /\ new[1].due = LOAD_MORE_DELAY
                     /\ fx'.failures = 0
                     /\ scrollFailureDetected' = scrollFailureDetected
                ELSE /\ scrollRetryCount' = scrollRetryCount + 1
                     /\ IF scrollRetryCount' >= MAX_SCROLL_RETRIES
                        THEN /\ fx'.failures = 1 /\ scrollFailureDetected' /\ paused'
                             /\ scrollInterval' = Null
                             /\ new = <<>>
                        ELSE /\ fx'.failures = 0
                             /\ scrollFailureDetected' = scrollFailureDetected
                             /\ Len(new) = 1 /\ new[1].fn = "scrollAndScan"
                             /\ new[1].due = CONTENT_LOAD_TIMEOUT
                             /\ CONTENT_LOAD_TIMEOUT > SCROLL_DETECTION_DELAY]_vars

\* C21 witness: after a stall near the bottom a validation activated a
\* load-more control: the counter is back at 0 and a delayed scan is pending
C21_ClickAfterStalls ==
    /\ fx.op = "validate" /\ fx.progress = "button" /\ fx.clicked
    /\ fx.hadRetries > 0 /\ scrollRetryCount = 0
    /\ \E i \in 1..Len(timers) : timers[i].fn = "scanPosts" /\ timers[i].due = LOAD_MORE_DELAY

\* C22: a validation without progress that is not near the bottom adds 1 to
\* scrollRetryCount and runs scanPosts once, whether the count stays below
\* MAX_SCROLL_RETRIES (nothing is scheduled and the failure flag is left as it
\* was) or reaches it (the driver enters Failed)
C22_BlockedStallStillScans ==
    [][(fx'.op = "validate" /\ NoProgressDue /\ ~NearBottomNow) =>
          /\ scrollRetryCount' = scrollRetryCount + 1
          /\ fx'.scans = 1
          /\ timers' = RemoveAt(timers, FirstDue)
          /\ IF scrollRetryCount' >= MAX_SCROLL_RETRIES
             THEN fx'.failures = 1 /\ scrollFailureDetected' /\ paused'
             ELSE fx'.failures = 0 /\ scrollFailureDetected' = scrollFailureDetected]_vars

\* C23: a scroll step (of a tick, a retry or a resume) that activates a
\* load-more control at its start issues no scroll command, schedules one
\* delayed scan and no validation, runs no scan itself, and leaves scrollCount,
\* scrollRetryCount and contentLoaded as they were when it started (after the
\* reset, for a resume)
C23_LoadMoreSkipsScroll ==
    [][(fx'.entered /\ fx'.clicked) =>
          LET rest == IF fx'.op = "retry" THEN RemoveAt(timers, FirstDue) ELSE timers
              new == Scheduled(rest, timers')
          IN /\ ~fx'.scrolled /\ scrollY' = scrollY
             /\ fx'.scans = 0 /\ ~fx'.maxReached
             /\ SubSeq(timers', 1, Len(rest)) = rest
             /\ Len(new) = 1 /\ new[1].fn = "scanPosts" /\ new[1].due = LOAD_MORE_DELAY
             /\ contentLoaded' = contentLoaded
             /\ IF fx'.op = "resume"
                THEN scrollCount' = 0 /\ scrollRetryCount' = 0
                ELSE scrollCount' = scrollCount /\ scrollRetryCount' = scrollRetryCount]_vars

\* C23 witness: a tick activated a load-more control while the content flag
\* was set and both counters were above 0
C23_TickClickedControl ==
    /\ fx.op = "tick" /\ fx.entered /\ fx.clicked /\ ~fx.scrolled
    /\ contentLoaded /\ scrollCount > 0 /\ scrollRetryCount > 0
    /\ \E i \in 1..Len(timers) : timers[i].fn = "scanPosts" /\ timers[i].due = LOAD_MORE_DELAY

\* C24: a scan marks every item whose identifier is a valid one as seen,
\* whatever its count; an identifier that is seen and has no record gets none
\* in any later step, whatever the threshold and the count have become; and
\* only close takes an identifier out of seenPostIds
C24_EvaluatedOnce ==
    [][/\ fx'.scans > 0 =>
             \A k \in 1..Len(posts) :
                 LET dataId == getPostDataId(posts[k])
                 IN (dataId # NoId /\ dataId[1] = "activity") => dataId \in seenPostIds'
       /\ \A dataId \in seenPostIds :
             <<LINK_PREFIX, dataId>> \notin Links(results)
                => <<LINK_PREFIX, dataId>> \notin Links(results')
       /\ (seenPostIds \subseteq seenPostIds') \/ fx'.op = "close"]_vars

\* C24 witness: a scan has just run over an item that an earlier scan found
\* below the threshold; its count has risen to or above the threshold, which
\* was lowered, and it has no record
C24_RescannedAboveThreshold ==
    /\ fx.op = "validate" /\ fx.scans = 1 /\ fx.foundNew = 0
    /\ commentThreshold < DEFAULT_THRESHOLD
    /\ \E k \in 1..Len(posts) :
          /\ getPostDataId(posts[k]) \in seenPostIds
          /\ posts[k].label \in RisenLabels
          /\ getCommentCount(posts[k]) >= commentThreshold
          /\ <<LINK_PREFIX, getPostDataId(posts[k])>> \notin Links(results)

\* C25: scrollRetryCount stays within 0..MAX_SCROLL_RETRIES, and
\* handleScrollFailure does not run on a driver that has failed and was not
\* resumed since
C25_RetryCountBounded ==
    /\ [](scrollRetryCount >= 0 /\ scrollRetryCount <= MAX_SCROLL_RETRIES)
    /\ [][fx'.failures > 0 => ~scrollFailureDetected]_vars

\* the session was torn down: in a session whose observer subscribed, close is
\* the one place that sets mutationObserver to null
TornDown == mutationObserver = Null

\* C26: once close has run, no continuation that was pending (a validation, a
\* delayed scan, a retry of the scroll step) issues a scroll command, activates
\* a load-more control, or adds to results or seenPostIds
C26_QuiescentAfterClose ==
    [][(TornDown /\ fx'.op \in {"validate", "scan", "retry"}) =>
          /\ ~fx'.scrolled /\ ~fx'.clicked
          /\ results' = results /\ seenPostIds' = seenPostIds]_vars

\* C27: a step in which clickLoadMoreButton clicks a control starts with the
\* driver neither paused nor Failed (a resume clears both flags before its
\* scroll step looks for a control)
C27_NoClickWhileStopped ==
    [][fx'.clicked => (fx'.op = "resume" \/ (~paused /\ ~scrollFailureDetected))]_vars

\* C28: while the driver is paused no interval is active; and startScanning
\* is only ever called (by a resume; by init on a new state) when no interval
\* is active, so that the interval it creates is the only one
C28_PausedHasNoInterval ==
    /\ [](paused => scrollInterval = Null)
    /\ [](fx.op = "init" => scrollInterval = <<SCROLL_INTERVAL_MS>>)
    /\ [][fx'.op = "resume" =>
             (scrollInterval = Null /\ scrollInterval' = <<SCROLL_INTERVAL_MS>>)]_vars
    /\ [][(scrollInterval = Null /\ scrollInterval' # Null) => fx'.op = "resume"]_vars

\* C28 witness: the user paused the driver after a stall, while a validation
\* was pending
C28_PausedMidCycle ==
    /\ fx.op = "pause" /\ paused /\ scrollInterval = Null
    /\ scrollRetryCount > 0
    /\ \E i \in 1..Len(timers) : timers[i].fn = "validateScroll"

\* C29: a driver that has failed is paused; so a press of the Pause / Resume
\* button on a failed driver takes the resume branch of togglePause: it clears
\* both flags and the retry counter and starts the interval again
C29_FailedIsPaused ==
    /\ [](scrollFailureDetected => paused)
    /\ [][(scrollFailureDetected /\ fx'.op \in {"pause", "resume"}) =>
             /\ fx'.op = "resume"
             /\ ~paused' /\ ~scrollFailureDetected' /\ scrollRetryCount' = 0
             /\ scrollInterval' = <<SCROLL_INTERVAL_MS>>]_vars

\* C29 witness: a scroll that stayed blocked away from the bottom has just
\* taken the driver to Failed
C29_FailedWhileBlocked ==
    /\ fx.op = "validate" /\ fx.progress = "blocked" /\ fx.failures = 1
    /\ ~fx.wasPaused /\ scrollFailureDetected /\ paused

====
